---- MODULE Spec2Model ----
(***************************************************************************)
(* The FastAPI application of the tutorial "Monitor NLP models with        *)
(* FastAPI and ArgillaLogHTTPMiddleware": two prediction endpoints, a      *)
(* liveness endpoint, the records mappers and the logging middlewares      *)
(* registered on the application, once as the step-by-step cells register  *)
(* them and once as the appendix main.py registers them.                   *)
(***************************************************************************)
EXTENDS Integers, Sequences, FiniteSets, Bags, TLC

\* ------------------------------------------------------------------ bounds
MaxRequests == 2
MaxBatch == 2

\* ------------------------------------------------------------ input domain
Texts == {"Bob ran", "ok"}

Min(a, b) == IF a <= b THEN a ELSE b

RECURSIVE SeqsUpTo(_, _)
SeqsUpTo(S, n) ==
  IF n = 0 THEN {<<>>}
  ELSE LET shorter == SeqsUpTo(S, n - 1)
       IN  shorter \cup {Append(s, x) : s \in {t \in shorter : Len(t) = n - 1}, x \in S}

Batches == SeqsUpTo(Texts, MaxBatch)

Layouts == {"tutorial", "main.py"}
Routed == {"/sentiment/", "/ner/"}
Unrouted == {"/transformers/"}
\* Bodies sent to a path that has no route: the framework never reads them.
Probes == SeqsUpTo(Texts, Min(1, MaxBatch))
FaultSets == {{}, {"ok"}}

VARIABLES
  layout,     \* which registration of middlewares the application was built with
  faulty,     \* the texts on which the loaded inference pipelines raise
  inflight,   \* the bag of requests received and not yet answered
  served,     \* the requests answered so far, with their responses, in order
  pending,    \* log calls forwarded to the dataset sink and not yet accepted
  datasets,   \* records the sink has accepted, per dataset
  mapIn,      \* arguments of a direct call of a records mapper
  mapOut      \* its result

vars == <<layout, faulty, inflight, served, pending, datasets, mapIn, mapOut>>

\* ------------------------------------------------------ inference providers
\* transformers_pipeline = pipeline("text-classification", return_all_scores=True):
\* one list of label/score entries per input text; scores in percent.
TextClassification(text) ==
  IF text = "Bob ran"
  THEN << [label |-> "NEGATIVE", score |-> 13], [label |-> "POSITIVE", score |-> 87] >>
  ELSE << [label |-> "NEGATIVE", score |-> 1], [label |-> "POSITIVE", score |-> 99] >>

\* spacy_pipeline = spacy.load("en_core_web_sm"): doc.ents of the text, each
\* entity with its token span (start, end) and its character span.
DocEnts(text) ==
  IF text = "Bob ran"
  THEN << [label_ |-> "PERSON", start |-> 0, end |-> 1, start_char |-> 0, end_char |-> 3] >>
  ELSE << >>

\* The outcome of a call: a value, or the exception it raised; calls counts
\* the invocations of an inference pipeline made on the way.
Raised(calls) == [status |-> "raised", body |-> << >>, calls |-> calls]
Ok(body, calls) == [status |-> "ok", body |-> body, calls |-> calls]
NotFound == [status |-> "not found", body |-> << >>, calls |-> 0]

transformers_pipeline(batch) ==
  IF \E i \in 1..Len(batch) : batch[i] \in faulty
  THEN Raised(1)
  ELSE Ok([i \in 1..Len(batch) |-> TextClassification(batch[i])], 1)

spacy_pipeline(text) ==
  IF text \in faulty THEN Raised(1) ELSE Ok(DocEnts(text), 1)

\* ---------------------------------------------------------------- handlers
\* predict_transformers with a results list kept at module level and extended
\* by every call, instead of a list built per call.
predict_transformers_shared(batch) ==
  LET predictions == transformers_pipeline(batch)
      earlier == SelectSeq(served, LAMBDA s : s.path = "/sentiment/" /\ s.response.status = "ok")
      kept == IF earlier = << >> THEN << >> ELSE earlier[Len(earlier)].response.body
  IN  IF predictions.status = "raised" THEN Raised(predictions.calls)
      ELSE Ok(kept \o [i \in 1..Len(predictions.body) |->
                 LET prediction == predictions.body[i]
                 IN  [labels |-> [j \in 1..Len(prediction) |-> prediction[j].label],
                      scores |-> [j \in 1..Len(prediction) |-> prediction[j].score]]],
              predictions.calls)

\* predict_transformers reporting only the scores above one half.
predict_transformers_confident(batch) ==
  LET predictions == transformers_pipeline(batch)
  IN  IF predictions.status = "raised" THEN Raised(predictions.calls)
      ELSE Ok([i \in 1..Len(predictions.body) |->
                 LET prediction == predictions.body[i]
                     high == SelectSeq(prediction, LAMBDA p : p.score > 50)
                 IN  [labels |-> [j \in 1..Len(prediction) |-> prediction[j].label],
                      scores |-> [j \in 1..Len(high) |-> high[j].score]]],
              predictions.calls)

predict_transformers(batch) ==
  LET predictions == transformers_pipeline(batch)
  IN  IF predictions.status = "raised" THEN Raised(predictions.calls)
      ELSE Ok([i \in 1..Len(predictions.body) |->
                 LET prediction == predictions.body[i]
                 IN  [labels |-> [j \in 1..Len(prediction) |-> prediction[j].label],
                      scores |-> [j \in 1..Len(prediction) |-> prediction[j].score]]],
              predictions.calls)

\* Entities read from the token span of an entity instead of its character span.
EntitiesByToken(ents) ==
  [k \in 1..Len(ents) |->
     [label |-> ents[k].label_, start |-> ents[k].start, end |-> ents[k].end]]

Entities(ents) ==
  [k \in 1..Len(ents) |->
     [label |-> ents[k].label_, start |-> ents[k].start_char, end |-> ents[k].end_char]]

RECURSIVE SpacyLoop(_, _, _)
SpacyLoop(batch, i, predictions) ==
  IF i > Len(batch) THEN Ok(predictions, i - 1)
  ELSE LET doc == spacy_pipeline(batch[i])
       IN  IF doc.status = "raised" THEN Raised(i)
           ELSE SpacyLoop(batch, i + 1,
                          Append(predictions,
                                 [text |-> batch[i], entities |-> Entities(doc.body)]))

\* predict_spacy putting each prediction in front of the earlier ones.
RECURSIVE SpacyLoopPrepend(_, _, _)
SpacyLoopPrepend(batch, i, predictions) ==
  IF i > Len(batch) THEN Ok(predictions, i - 1)
  ELSE LET doc == spacy_pipeline(batch[i])
       IN  IF doc.status = "raised" THEN Raised(i)
           ELSE SpacyLoopPrepend(batch, i + 1,
                                 <<[text |-> batch[i], entities |-> Entities(doc.body)]>>
                                   \o predictions)

predict_spacy_prepend(batch) == SpacyLoopPrepend(batch, 1, << >>)

\* predict_spacy catching the pipeline's exception and going on to the next text.
RECURSIVE SpacyLoopSkip(_, _, _)
SpacyLoopSkip(batch, i, predictions) ==
  IF i > Len(batch) THEN Ok(predictions, i - 1)
  ELSE LET doc == spacy_pipeline(batch[i])
       IN  IF doc.status = "raised" THEN SpacyLoopSkip(batch, i + 1, predictions)
           ELSE SpacyLoopSkip(batch, i + 1,
                              Append(predictions,
                                     [text |-> batch[i], entities |-> Entities(doc.body)]))

predict_spacy_skip(batch) == SpacyLoopSkip(batch, 1, << >>)

predict_spacy(batch) == SpacyLoop(batch, 1, << >>)

\* root answering by the state of the logging queue.
root_ready ==
  IF pending = << >> THEN Ok([message |-> "alive"], 0) ELSE Ok([message |-> "busy"], 0)

root == Ok([message |-> "alive"], 0)

\* ----------------------------------------------------------------- mappers
text_classification_mapper(data, prediction) ==
  [record |-> "TextClassificationRecord", inputs |-> data, prediction |-> prediction]

token_classification_mapper(data, prediction) ==
  [record |-> "TokenClassificationRecord", inputs |-> data, prediction |-> prediction]

\* text2records stopping one pair short.
text2records_short(batch, outputs) ==
  [i \in 1..(Min(Len(batch), Len(outputs)) - 1) |->
     text_classification_mapper(batch[i], outputs[i])]

text2records(batch, outputs) ==
  [i \in 1..Min(Len(batch), Len(outputs)) |->
     text_classification_mapper(batch[i], outputs[i])]

token2records(batch, outputs) ==
  [i \in 1..Min(Len(batch), Len(outputs)) |->
     token_classification_mapper(batch[i], outputs[i])]

records_mapper(name, batch, outputs) ==
  IF name = "text2records" THEN text2records(batch, outputs)
  ELSE token2records(batch, outputs)

\* ------------------------------------------------------------- middlewares
Middleware(endpoint, dataset, mapper) ==
  [api_endpoint |-> endpoint, dataset |-> dataset, records_mapper |-> mapper]

\* The first registration corrected in place to "/sentiment/" while the later
\* registration for "/sentiment/" stays.
MiddlewaresSentimentTwice(l) ==
  IF l = "tutorial"
  THEN << Middleware("/sentiment/", "monitoring_transformers", "text2records"),
          Middleware("/spacy/", "monitoring_spacy", "token2records") >>
  ELSE << Middleware("/sentiment/", "monitoring_transformers", "text2records"),
          Middleware("/ner/", "monitoring_spacy", "token2records"),
          Middleware("/sentiment/", "monitoring_transformers", "text2records") >>

\* The registration for "/ner/" copied from the one above it with its dataset
\* left as "monitoring_transformers".
MiddlewaresNerDatasetCopied(l) ==
  IF l = "tutorial"
  THEN << Middleware("/transformers/", "monitoring_transformers", "text2records"),
          Middleware("/spacy/", "monitoring_spacy", "token2records") >>
  ELSE << Middleware("/transformers/", "monitoring_transformers", "text2records"),
          Middleware("/ner/", "monitoring_transformers", "token2records"),
          Middleware("/sentiment/", "monitoring_transformers", "text2records") >>

Middlewares(l) ==
  IF l = "tutorial"
  THEN << Middleware("/transformers/", "monitoring_transformers", "text2records"),
          Middleware("/spacy/", "monitoring_spacy", "token2records") >>
  ELSE << Middleware("/transformers/", "monitoring_transformers", "text2records"),
          Middleware("/ner/", "monitoring_spacy", "token2records"),
          Middleware("/sentiment/", "monitoring_transformers", "text2records") >>

Datasets == {"monitoring_transformers", "monitoring_spacy"}

\* ArgillaLogHTTPMiddleware as the application uses it: every middleware whose
\* api_endpoint is the request's path takes the request batch and the response
\* batch of a successful response, runs its records_mapper on them and hands
\* the records to the background logger of its dataset. The first middleware
\* added is the innermost one, so it sees the response first.
Matching(l, path) ==
  SelectSeq(Middlewares(l), LAMBDA mw : mw.api_endpoint = path)

LogCall(mw, r, batch, outputs) ==
  [dataset |-> mw.dataset, req |-> r,
   records |-> records_mapper(mw.records_mapper, batch, outputs)]

ArgillaLog(l, r, path, batch, response) ==
  IF response.status # "ok" THEN << >>
  ELSE LET mws == Matching(l, path)
           calls == [k \in 1..Len(mws) |-> LogCall(mws[k], r, batch, response.body)]
       IN  SelectSeq(calls, LAMBDA c : c.records # << >>)

\* Logging in the foreground: a response with records to log waits until the
\* sink has accepted every earlier log call.
CanForwardInForeground(calls) == calls = << >> \/ pending = << >>

\* The middleware hands its records to a background logger and returns the
\* response: forwarding never waits for the sink.
CanForward(calls) == TRUE


\* ------------------------------------------------------------------- state
NotCalled == [called |-> FALSE, records |-> << >>]
IdleMapper == [mapper |-> "text2records", batch |-> << >>, outputs |-> << >>]

Init ==
  /\ layout \in Layouts
  /\ faulty \in FaultSets
  /\ inflight = EmptyBag
  /\ served = << >>
  /\ pending = << >>
  /\ datasets = [d \in Datasets |-> << >>]
  /\ mapIn = IdleMapper
  /\ mapOut = NotCalled

\* ----------------------------------------------------------------- actions
Request(path, batch) == [path |-> path, batch |-> batch]

\* A client sends a request; the server has received it and not yet answered.
Receive(path, batch) ==
  /\ BagCardinality(inflight) + Len(served) < MaxRequests
  /\ inflight' = inflight (+) SetToBag({Request(path, batch)})
  /\ UNCHANGED <<layout, faulty, served, pending, datasets, mapIn, mapOut>>

Requests ==
  {Request(path, batch) : path \in Routed, batch \in Batches}
    \cup {Request(path, batch) : path \in Unrouted, batch \in Probes}
    \cup {Request("/", << >>)}

Send == \E req \in Requests : Receive(req.path, req.batch)

\* The middleware stack around one run of the route's handler: the handler's
\* result, the log calls of the matching middlewares, the response delivered.
Respond(req, response) ==
  LET r == Len(served) + 1
      calls == ArgillaLog(layout, r, req.path, req.batch, response)
  IN  /\ BagIn(req, inflight)
      /\ CanForward(calls)
      /\ inflight' = inflight (-) SetToBag({req})
      /\ served' = Append(served, [path |-> req.path, batch |-> req.batch,
                                    response |-> response])
      /\ pending' = pending \o calls
      /\ UNCHANGED <<layout, faulty, datasets, mapIn, mapOut>>

PostSentiment(req) ==
  /\ req.path = "/sentiment/"
  /\ Respond(req, predict_transformers(req.batch))

PostNer(req) ==
  /\ req.path = "/ner/"
  /\ Respond(req, predict_spacy(req.batch))

GetRoot(req) ==
  /\ req.path = "/"
  /\ Respond(req, root)

\* A path no route is registered for: the framework answers 404.
NoRoute(req) ==
  /\ req.path \notin Routed \cup {"/"}
  /\ Respond(req, NotFound)

Serve ==
  \E req \in Requests :
    PostSentiment(req) \/ PostNer(req) \/ GetRoot(req) \/ NoRoute(req)

\* The dataset sink accepts the oldest forwarded log call.
SinkAccept ==
  /\ pending # << >>
  /\ LET call == Head(pending)
         stored == [i \in 1..Len(call.records) |->
                      [req |-> call.req, record |-> call.records[i]]]
     IN  datasets' = [datasets EXCEPT ![call.dataset] = @ \o stored]
  /\ pending' = Tail(pending)
  /\ UNCHANGED <<layout, faulty, inflight, served, mapIn, mapOut>>

Next == Send \/ Serve \/ SinkAccept

Spec == Init /\ [][Next]_vars

\* main.py's application, the one with middlewares on routed paths, served
\* fairly: every received request is eventually run by the server. Nothing is
\* assumed of the dataset sink, which may never accept a log call.
LiveInit == Init /\ layout = "main.py"

LiveSpec == LiveInit /\ [][Next]_vars /\ WF_vars(Serve)

\* ------------------------------------------- a records mapper called directly
MapperOutputs ==
  {[labels |-> <<"NEGATIVE", "POSITIVE">>, scores |-> <<13, 87>>],
   [labels |-> <<"POSITIVE">>, scores |-> <<99>>],
   [text |-> "Bob ran", entities |-> <<[label |-> "PERSON", start |-> 0, end |-> 3]>>],
   [text |-> "ok", entities |-> << >>]}

MapperInit ==
  /\ layout = "main.py"
  /\ faulty = {}
  /\ inflight = EmptyBag
  /\ served = << >>
  /\ pending = << >>
  /\ datasets = [d \in Datasets |-> << >>]
  /\ mapIn \in [mapper : {"text2records", "token2records"},
                 batch : Batches,
                 outputs : SeqsUpTo(MapperOutputs, MaxBatch)]
  /\ mapOut = NotCalled

CallMapper ==
  /\ ~mapOut.called
  /\ mapOut' = [called |-> TRUE,
                records |-> records_mapper(mapIn.mapper, mapIn.batch, mapIn.outputs)]
  /\ UNCHANGED <<layout, faulty, inflight, served, pending, datasets, mapIn>>

MapperSpec == MapperInit /\ [][CallMapper]_vars

\* ------------------------------------------------------- what was forwarded
Answered == 1..Len(served)

SucceededAt(r, path) ==
  served[r].path = path /\ served[r].response.status = "ok"

RECURSIVE RecordsOf(_)
RecordsOf(calls) ==
  IF calls = << >> THEN << >> ELSE Head(calls).records \o RecordsOf(Tail(calls))

\* The records derived from request r that the sink has accepted into dataset d.
StoredOf(r, d) ==
  LET entries == SelectSeq(datasets[d], LAMBDA e : e.req = r)
  IN  [i \in 1..Len(entries) |-> entries[i].record]

\* The records derived from request r forwarded to dataset d, accepted or not.
ForwardedOf(r, d) ==
  StoredOf(r, d) \o RecordsOf(SelectSeq(pending, LAMBDA c : c.req = r /\ c.dataset = d))

\* ------------------------------------------------------------------ claims
\* C1: every successful response of POST /sentiment/ and of POST /ner/ has as
\* many elements as the request's batch, the i-th made from the i-th input: the
\* scores of the i-th text for /sentiment/, the i-th text itself for /ner/.
C1_BatchOrderPreserved ==
  \A r \in Answered :
    LET batch == served[r].batch
        body == served[r].response.body
    IN  /\ SucceededAt(r, "/sentiment/") =>
              /\ Len(body) = Len(batch)
              /\ \A i \in 1..Len(body) :
                    LET prediction == TextClassification(batch[i])
                    IN  body[i].scores = [j \in 1..Len(prediction) |-> prediction[j].score]
        /\ SucceededAt(r, "/ner/") =>
              /\ Len(body) = Len(batch)
              /\ \A i \in 1..Len(body) : body[i].text = batch[i]

C1_Witness ==
  \E r, q \in Answered :
    /\ SucceededAt(r, "/sentiment/") /\ SucceededAt(q, "/ner/")
    /\ \A x \in {r, q} : Len(served[x].batch) = 2 /\ served[x].batch[1] # served[x].batch[2]

\* The dataset and the mapper main.py registers for a route.
DatasetFor(path) ==
  IF path = "/sentiment/" THEN "monitoring_transformers" ELSE "monitoring_spacy"

MapperFor(path) ==
  IF path = "/sentiment/" THEN "text2records" ELSE "token2records"

\* C2: every request to a prediction endpoint that yields a response has had its
\* request batch and response batch mapped by the records mapper and the records
\* forwarded to the endpoint's dataset (monitoring_transformers for /sentiment/,
\* monitoring_spacy for /ner/), in the tutorial cells' application and in main.py's.
C2_EveryPredictionLogged ==
  \A r \in Answered :
    \A path \in Routed :
      SucceededAt(r, path) =>
        ForwardedOf(r, DatasetFor(path))
          = records_mapper(MapperFor(path), served[r].batch, served[r].response.body)

\* C3: in main.py's application a successful POST /sentiment/ with n inputs puts
\* exactly n records on the way to monitoring_transformers, the i-th made from
\* the i-th input, and no more than these reach the dataset.
C3_OneRecordPerInput ==
  layout = "main.py" =>
    \A r \in Answered :
      SucceededAt(r, "/sentiment/") =>
        LET forwarded == ForwardedOf(r, "monitoring_transformers")
            batch == served[r].batch
        IN  /\ Len(forwarded) = Len(batch)
            /\ \A i \in 1..Len(forwarded) :
                  /\ forwarded[i].inputs = batch[i]
                  /\ forwarded[i].prediction = served[r].response.body[i]
            /\ Len(StoredOf(r, "monitoring_transformers")) <= Len(batch)

C3_Witness ==
  /\ layout = "main.py"
  /\ \E r \in Answered :
       /\ SucceededAt(r, "/sentiment/")
       /\ Len(served[r].batch) = 2
       /\ Len(StoredOf(r, "monitoring_transformers")) = 2

\* C4: in every record of a successful /sentiment/ response, labels and scores
\* are as long as the list the pipeline returned for that input, and labels[j]
\* and scores[j] are the label and the score of the pipeline's j-th entry.
C4_LabelsScoresPaired ==
  \A r \in Answered :
    SucceededAt(r, "/sentiment/") =>
      LET body == served[r].response.body
          returned == transformers_pipeline(served[r].batch).body
      IN  \A i \in 1..Min(Len(body), Len(returned)) :
            /\ Len(body[i].labels) = Len(body[i].scores)
            /\ Len(body[i].labels) = Len(returned[i])
            /\ \A j \in 1..Len(returned[i]) :
                  /\ body[i].labels[j] = returned[i][j].label
                  /\ body[i].scores[j] = returned[i][j].score

C4_Witness ==
  \E r \in Answered :
    /\ SucceededAt(r, "/sentiment/")
    /\ served[r].response.body # << >>
    /\ Len(served[r].response.body[1].labels) = 2

\* C5: every entity of every record of a successful /ner/ response lies inside
\* the record's text, 0 <= start < end <= length(text), and its start and end
\* are the character offsets the pipeline gave, unchanged.
C5_EntitiesWithinText ==
  \A r \in Answered :
    SucceededAt(r, "/ner/") =>
      \A i \in 1..Len(served[r].response.body) :
        LET rec == served[r].response.body[i]
            ents == DocEnts(rec.text)
        IN  /\ Len(rec.entities) = Len(ents)
            /\ \A k \in 1..Len(rec.entities) :
                  /\ 0 <= rec.entities[k].start
                  /\ rec.entities[k].start < rec.entities[k].end
                  /\ rec.entities[k].end <= Len(rec.text)
                  /\ rec.entities[k].start = ents[k].start_char
                  /\ rec.entities[k].end = ents[k].end_char

C5_Witness ==
  \E r \in Answered :
    /\ SucceededAt(r, "/ner/")
    /\ \E i \in 1..Len(served[r].response.body) :
         served[r].response.body[i].entities # << >>

C7_RootAlive ==
  \A r \in Answered :
    served[r].path = "/" =>
      /\ served[r].response.status = "ok"
      /\ served[r].response.body = [message |-> "alive"]

C7_Witness ==
  \E r \in Answered :
    /\ r > 1
    /\ served[r].path = "/"
    /\ \E c \in 1..Len(pending) : pending[c].req < r

\* C8: every received request is eventually answered, also in the behaviours
\* where the sink never accepts a log call: again and again no received request
\* is left unanswered.
C8_ResponseNeverWaitsForSink == []<>(inflight = EmptyBag)

C8_Witness ==
  \E r \in Answered :
    /\ r > 1
    /\ \E c \in 1..Len(pending) : pending[c].req = r
    /\ \E c \in 1..Len(pending) : pending[c].req < r
    /\ \A d \in Datasets : datasets[d] = << >>

\* The position of the first text of the batch the pipelines raise on.
FirstFaulty(batch) ==
  CHOOSE i \in 1..Len(batch) : batch[i] \in faulty /\ \A j \in 1..(i - 1) : batch[j] \notin faulty

\* C9: a request whose batch holds a text the pipeline raises on is answered by
\* that failure alone: no list of predictions, every text given to the pipeline
\* at most once, and no record of the request forwarded to any dataset.
C9_FailurePropagates ==
  \A r \in Answered :
    LET batch == served[r].batch
    IN  (served[r].path \in Routed /\ \E i \in 1..Len(batch) : batch[i] \in faulty) =>
          /\ served[r].response.status = "raised"
          /\ served[r].response.body = << >>
          /\ served[r].response.calls
                = (IF served[r].path = "/sentiment/" THEN 1 ELSE FirstFaulty(batch))
          /\ \A d \in Datasets : ForwardedOf(r, d) = << >>

C9_Witness ==
  /\ layout = "main.py"
  /\ \E r, q \in Answered :
       /\ served[r].path = "/ner/" /\ served[q].path = "/sentiment/"
       /\ \A x \in {r, q} :
            /\ Len(served[x].batch) = 2
            /\ served[x].batch[1] \notin faulty
            /\ served[x].batch[2] \in faulty
            /\ served[x].response.status = "raised"

\* C10: called with any batch and any outputs, text2records and token2records
\* return min(length(batch), length(outputs)) records, the i-th made from
\* batch[i] and outputs[i]; what the longer argument has beyond that is dropped
\* and the call still returns.
C10_MapperPairsUp ==
  mapOut.called =>
    /\ Len(mapOut.records) = Min(Len(mapIn.batch), Len(mapIn.outputs))
    /\ \A i \in 1..Len(mapOut.records) :
          /\ mapOut.records[i].inputs = mapIn.batch[i]
          /\ mapOut.records[i].prediction = mapIn.outputs[i]
          /\ mapOut.records[i].record
                = (IF mapIn.mapper = "text2records" THEN "TextClassificationRecord"
                   ELSE "TokenClassificationRecord")

C10_Witness ==
  /\ mapOut.called
  /\ mapIn.mapper = "text2records"
  /\ Len(mapIn.batch) # Len(mapIn.outputs)
  /\ mapOut.records # << >>

====
